---------------------------- MODULE Spec2Model ----------------------------
(***************************************************************************)
(* A model of src/sixaxis.py: the SixAxis controller state machine.        *)
(*                                                                         *)
(* Floats are exact rationals here: an axis reading is an integer number   *)
(* of units, One units making 1.0.  A raw sample r in 0..255 is r/255.0,   *)
(* i.e. 10*r units, and the calibration defaults 0.5, 0.9 and 0.1 are      *)
(* One/2, 9*One/10 and One/10.  No raw sample equals a default bound, so   *)
(* every comparison the code makes between them has the same outcome in    *)
(* floating point as in the rationals.                                     *)
(***************************************************************************)
EXTENDS Integers, Sequences, FiniteSets, TLC

(***************************************************************************)
(* Program constants                                                       *)
(***************************************************************************)
EV_KEY == 1
EV_ABS == 3

RawMax == 255
One == RawMax * 10
CentreDefault == One \div 2
MaxDefault == (9 * One) \div 10
MinDefault == One \div 10
\* dead_zone=0.05 and hot_zone=0.0, in thousandths
DeadZoneDefault == 50
HotZoneDefault == 0

BUTTON_SELECT == 0
BUTTON_LEFT_STICK == 1
BUTTON_RIGHT_STICK == 2
BUTTON_START == 3
BUTTON_D_UP == 4
BUTTON_D_RIGHT == 5
BUTTON_D_DOWN == 6
BUTTON_D_LEFT == 7
BUTTON_L2 == 8
BUTTON_R2 == 9
BUTTON_L1 == 10
BUTTON_R1 == 11
BUTTON_TRIANGLE == 12
BUTTON_CIRCLE == 13
BUTTON_CROSS == 14
BUTTON_SQUARE == 15
BUTTON_PS == 16

Buttons == BUTTON_SELECT .. BUTTON_PS
\* the value of "button" when no branch of the key table matches
None == -1

(***************************************************************************)
(* Bounds of the model                                                     *)
(***************************************************************************)
\* register_button_handler calls in one behaviour
MaxRegistrations == 2
\* consecutive press events of one button that are counted
MaxStreak == 2
\* absolute-axis events in one behaviour
MaxAxisEvents == 2
\* connect() calls that get as far as opening a channel, in one behaviour
MaxConnects == 2
\* drains in one behaviour of the reader/drainer interleaving
MaxDrains == 2

(***************************************************************************)
(* Inputs                                                                  *)
(***************************************************************************)
\* raw key codes delivered by the device: CIRCLE, SELECT, START, one unmapped
KeyCodes == {305, 314, 999}
DefaultKeyCodes == {314, 315}
KeyValues == {0, 1}
\* raw axis codes (2 is not an axis of the table) and raw amplitudes
AxisCodes == {0, 1, 2, 3, 4}
RawValues == {-3, 0, 128, 255, 300}

Bare(b) == [list |-> FALSE, code |-> b, codes |-> <<>>]
List(bs) == [list |-> TRUE, code |-> None, codes |-> bs]
\* (button_handler, buttons) arguments of register_button_handler
RegisterArgs ==
    { [handler |-> "cb1", buttons |-> Bare(BUTTON_CIRCLE)],
      [handler |-> "cb2", buttons |-> List(<<BUTTON_SELECT, BUTTON_CIRCLE>>)],
      [handler |-> "cb2", buttons |-> Bare(BUTTON_SELECT)] }

(***************************************************************************)
(* Integer bit operations (Python ints are unbounded)                      *)
(***************************************************************************)
Shl(b) == 2 ^ b

RECURSIVE BitAnd(_, _)
BitAnd(x, y) ==
    IF x = 0 \/ y = 0 THEN 0
    ELSE (x % 2) * (y % 2) + 2 * BitAnd(x \div 2, y \div 2)

RECURSIVE BitOr(_, _)
BitOr(x, y) ==
    IF x = 0 THEN y
    ELSE IF y = 0 THEN x
    ELSE (IF x % 2 = 1 \/ y % 2 = 1 THEN 1 ELSE 0) + 2 * BitOr(x \div 2, y \div 2)

\* faulty variant: "&= bitmask", the complement forgotten
BitAndKept(x, m) == BitAnd(x, m)

\* x & ~m for non-negative x and m
BitAndNot(x, m) == x - BitAnd(x, m)

BitsOf(x) == {b \in Buttons : BitAnd(x, Shl(b)) # 0}


(***************************************************************************)
(* State                                                                   *)
(***************************************************************************)
VARIABLES
    \* SixAxis fields
    axes,              \* the four Axis objects, slots 0..3
    button_handlers,   \* list of {'handler','mask'} dicts; "id" is the object's identity
    buttons_pressed,   \* bit field
    stop_function,     \* None or the channel whose thread's stop is bound
    \* the dict captured by each remove() closure handed out, in creation order
    registrations,
    \* observation of the run
    calls,             \* handler invocations made by the last handle_event
    last,              \* the last operation performed and what it returned
    held,              \* buttons physically down: last key event was a press
    sinceDrain,        \* buttons that received a press since the last drain
    streak,            \* consecutive press events of last.button, nothing between
    fired,             \* invocations of each registration during the streak
    nAxis,             \* absolute-axis events delivered so far
    \* threads calling connect() and disconnect(), and the asyncore loop threads
    pc,                \* where each application thread is inside connect/disconnect
    ret,               \* what each application thread's last call returned or raised
    socket_map,        \* asyncore's map of open channels
    loops,             \* the AsyncLoopThread started for each channel, and its state
    stops,             \* times each channel's stop capability was invoked
    reading,           \* the channel each loop thread's poll() found readable, 0 if none
    late,              \* channels read and delivered after their disconnect() returned
    \* the reader inside handle_event against a thread inside the drain
    rpc,               \* reader: idle, or between loading and storing buttons_pressed
    rtmp,              \* reader: the value of buttons_pressed it loaded
    rbutton,           \* reader: the button of the event it is handling
    dpc,               \* drainer: idle, or between its two statements
    old_buttons,       \* drainer: its local old_buttons
    drains,            \* the bit fields the drains returned, in order
    delivered          \* buttons whose press event handle_event has finished

ctrlVars == <<axes, button_handlers, buttons_pressed, stop_function>>
obsVars == <<calls, last, held, sinceDrain, streak, fired, nAxis>>

AxisNames == <<"left_x", "left_y", "right_x", "right_y">>
Slots == 0 .. 3

(***************************************************************************)
(* SixAxis.Axis                                                            *)
(***************************************************************************)
Axis(name, invert, dead_zone, hot_zone) ==
    [name |-> name, centre |-> CentreDefault, max |-> MaxDefault,
     min |-> MinDefault, value |-> CentreDefault, invert |-> invert,
     dead_zone |-> dead_zone, hot_zone |-> hot_zone]

\* faulty variant: the reset also returns the stick to the default centre
Axis_reset_value(axis) ==
    [axis EXCEPT !.centre = CentreDefault, !.max = MaxDefault, !.min = MinDefault,
                 !.value = CentreDefault]

Axis_reset(axis) ==
    [axis EXCEPT !.centre = CentreDefault, !.max = MaxDefault, !.min = MinDefault]

\* faulty variant: max follows every sample
Axis_set_following(axis, new_value) ==
    [axis EXCEPT !.value = new_value, !.max = new_value]

Axis_set(axis, new_value) ==
    IF new_value > axis.max
    THEN [axis EXCEPT !.value = new_value, !.max = new_value]
    ELSE IF new_value < axis.min
    THEN [axis EXCEPT !.value = new_value, !.min = new_value]
    ELSE [axis EXCEPT !.value = new_value]

\* dead_zone and hot_zone are held in thousandths: 1.0 is ZoneOne
ZoneOne == 1000

\* a float result as an exact fraction with a positive denominator
Float(num, den) == [num |-> num, den |-> den]

\* the outcome of dividing by zero
ZeroDivisionError == Float(0, 0)

\* Python's "/" on floats
Div(num, den) ==
    IF den = 0 THEN ZeroDivisionError
    ELSE IF den < 0 THEN Float(-num, -den)
    ELSE Float(num, den)

\* Python's unary minus
Neg(x) == IF x = ZeroDivisionError THEN x ELSE Float(-x.num, x.den)

\* the thresholds of Axis.corrected_value; every term is scaled by ZoneOne so
\* that the products with dead_zone and hot_zone stay exact
high_range(axis) == axis.max - axis.centre
high_start(axis) == ZoneOne * axis.centre + axis.dead_zone * high_range(axis)
high_end(axis) == ZoneOne * axis.max - axis.hot_zone * high_range(axis)
low_range(axis) == axis.centre - axis.min
low_start(axis) == ZoneOne * axis.centre - axis.dead_zone * low_range(axis)
low_end(axis) == ZoneOne * axis.min + axis.hot_zone * low_range(axis)

\* faulty variant: no saturation test before the interpolation
corrected_value_unsaturated(axis) ==
    LET value == ZoneOne * axis.value
        result == IF value > high_start(axis)
                  THEN Div(value - high_start(axis), high_end(axis) - high_start(axis))
                  ELSE IF value < low_start(axis)
                  THEN Div(value - low_start(axis), low_start(axis) - low_end(axis))
                  ELSE Float(0, 1)
    IN  IF ~axis.invert THEN result ELSE Neg(result)

\* faulty variant: a value on the start threshold is interpolated too
corrected_value_from_start(axis) ==
    LET value == ZoneOne * axis.value
        result == IF value >= high_start(axis)
                  THEN IF value > high_end(axis)
                       THEN Float(1, 1)
                       ELSE Div(value - high_start(axis),
                                high_end(axis) - high_start(axis))
                  ELSE IF value <= low_start(axis)
                  THEN IF value < low_end(axis)
                       THEN Float(-1, 1)
                       ELSE Div(value - low_start(axis),
                                low_start(axis) - low_end(axis))
                  ELSE Float(0, 1)
    IN  IF ~axis.invert THEN result ELSE Neg(result)

\* Axis.corrected_value
corrected_value(axis) ==
    LET value == ZoneOne * axis.value
        result == IF value > high_start(axis)
                  THEN IF value > high_end(axis)
                       THEN Float(1, 1)
                       ELSE Div(value - high_start(axis),
                                high_end(axis) - high_start(axis))
                  ELSE IF value < low_start(axis)
                  THEN IF value < low_end(axis)
                       THEN Float(-1, 1)
                       ELSE Div(value - low_start(axis),
                                low_start(axis) - low_end(axis))
                  ELSE Float(0, 1)
    IN  IF ~axis.invert THEN result ELSE Neg(result)

(***************************************************************************)
(* SixAxis: pure parts                                                     *)
(***************************************************************************)
set_axis_centres(axs) == [i \in Slots |-> [axs[i] EXCEPT !.centre = axs[i].value]]

reset_axis_calibration(axs) == [i \in Slots |-> Axis_reset(axs[i])]

is_connected == stop_function # None

is_pressed(button) == BitAnd(buttons_pressed, Shl(button)) # 0

\* float(event.value) / 255.0, clamped to [0, 1.0]
Normalise(raw) ==
    IF raw < 0 THEN 0
    ELSE IF raw * 10 > One THEN One
    ELSE raw * 10

\* faulty variant: the event code taken as the index into axes
AxisSlotByCode(code) == IF code \in Slots THEN code ELSE None

\* event code -> index into axes, None for a code the chain does not name
AxisSlot(code) ==
    CASE code = 0 -> 0
      [] code = 1 -> 1
      [] code = 3 -> 2
      [] code = 4 -> 3
      [] OTHER -> None

\* faulty variant: every key code but START's is taken as SELECT
KeyTableOrSelect(code) == IF code = 315 THEN BUTTON_START ELSE BUTTON_SELECT

\* the if/elif chain from raw key code to button
KeyTable(code) ==
    CASE code = 314 -> BUTTON_SELECT
      [] code = 315 -> BUTTON_START
      [] code = 317 -> BUTTON_LEFT_STICK
      [] code = 318 -> BUTTON_RIGHT_STICK
      [] code = 546 -> BUTTON_D_LEFT
      [] code = 544 -> BUTTON_D_UP
      [] code = 547 -> BUTTON_D_RIGHT
      [] code = 545 -> BUTTON_D_DOWN
      [] code = 316 -> BUTTON_PS
      [] code = 308 -> BUTTON_SQUARE
      [] code = 307 -> BUTTON_TRIANGLE
      [] code = 305 -> BUTTON_CIRCLE
      [] code = 304 -> BUTTON_CROSS
      [] code = 311 -> BUTTON_R1
      [] code = 313 -> BUTTON_R2
      [] code = 310 -> BUTTON_L1
      [] code = 312 -> BUTTON_L2
      [] OTHER -> None

RECURSIVE SumShl(_)
SumShl(codes) ==
    IF codes = <<>> THEN 0 ELSE Shl(Head(codes)) + SumShl(Tail(codes))

\* the mask register_button_handler builds: "mask += 1 << button"
MaskOf(buttons) ==
    IF buttons.list THEN SumShl(buttons.codes) ELSE Shl(buttons.code)

\* dict equality: same handler and same mask, whatever the object
SameDict(a, b) == a.handler = b.handler /\ a.mask = b.mask

\* list.remove(h): index of the first element equal to h, 0 when there is none
FirstEqual(list, h) ==
    IF \E i \in 1 .. Len(list) : SameDict(list[i], h)
    THEN CHOOSE i \in 1 .. Len(list) :
            /\ SameDict(list[i], h)
            /\ \A j \in 1 .. (i - 1) : ~SameDict(list[j], h)
    ELSE 0

RemoveAt(list, i) ==
    [j \in 1 .. (Len(list) - 1) |-> IF j < i THEN list[j] ELSE list[j + 1]]

(***************************************************************************)
(* Handler invocation and the dispatch loop of handle_event                *)
(***************************************************************************)
\* st = [axes, button_handlers, buttons_pressed, calls]: what a handler can reach
\* and change; each invocation is logged with its argument and the bit field
\* the handler finds
CallHandler(st, h, button) ==
    LET logged == [st EXCEPT !.calls =
                      Append(@, [id |-> h.id, handler |-> h.handler, arg |-> button,
                                 seen |-> st.buttons_pressed])]
    IN  CASE h.handler = "reset_axis_calibration" ->
                [logged EXCEPT !.axes = reset_axis_calibration(@)]
          [] h.handler = "set_axis_centres" ->
                [logged EXCEPT !.axes = set_axis_centres(@)]
          \* a handler that calls the remove() its own registration returned: it
          \* is being invoked from the list, so list.remove finds an equal dict
          [] h.handler = "remove_own" ->
                [logged EXCEPT !.button_handlers = RemoveAt(@, FirstEqual(@, h))]
          [] OTHER -> logged

\* faulty variant: a handler fires only when its mask equals the pressed button's bit
RECURSIVE DispatchExactMask(_, _, _, _)
DispatchExactMask(st, i, bitmask, button) ==
    IF i > Len(st.button_handlers) THEN st
    ELSE LET h == st.button_handlers[i]
         IN  IF h.mask = bitmask
             THEN DispatchExactMask(CallHandler(st, h, button), i + 1, bitmask, button)
             ELSE DispatchExactMask(st, i + 1, bitmask, button)

\* "for button_handler in self.button_handlers": Python's list iterator keeps an
\* index into the live list and stops when the index reaches its length
RECURSIVE Dispatch(_, _, _, _)
Dispatch(st, i, bitmask, button) ==
    IF i > Len(st.button_handlers) THEN st
    ELSE LET h == st.button_handlers[i]
         IN  IF BitAnd(h.mask, bitmask) # 0
             THEN Dispatch(CallHandler(st, h, button), i + 1, bitmask, button)
             ELSE Dispatch(st, i + 1, bitmask, button)


connVars == <<pc, ret, socket_map, loops, stops, reading, late>>
raceVars == <<rpc, rtmp, rbutton, dpc, old_buttons, drains, delivered>>
vars == <<axes, button_handlers, buttons_pressed, stop_function, registrations,
          calls, last, held, sinceDrain, streak, fired, nAxis,
          pc, ret, socket_map, loops, stops, reading, late,
          rpc, rtmp, rbutton, dpc, old_buttons, drains, delivered>>

(***************************************************************************)
(* Observation records                                                     *)
(***************************************************************************)
Op(name) ==
    [op |-> name, type |-> 0, code |-> 0, value |-> 0, button |-> None,
     wasSet |-> FALSE, id |-> 0, ret |-> 0, since |-> {}, raised |-> FALSE]

Zeros(n) == [i \in 1 .. n |-> 0]

Invocations(log, id) == Cardinality({i \in 1 .. Len(log) : log[i].id = id})

Event(type, code, value) == [type |-> type, code |-> code, value |-> value]

(***************************************************************************)
(* SixAxis.handle_event, the whole call                                    *)
(***************************************************************************)
\* faulty variant: a press counts only when the button's bit is not yet set
IsPressDebounced(event, button) ==
    button # None /\ event.value = 1 /\ ~is_pressed(button)

\* "if event.value == 1" under "if button is not None"
IsPress(event, button) == button # None /\ event.value = 1

handle_event(event) ==
    LET slot == IF event.type = EV_ABS THEN AxisSlot(event.code) ELSE None
        button == IF event.type = EV_KEY THEN KeyTable(event.code) ELSE None
        bitmask == IF button = None THEN 0 ELSE Shl(button)
        st0 == [axes |-> axes, button_handlers |-> button_handlers,
                buttons_pressed |->
                    IF button = None THEN buttons_pressed
                    ELSE IF IsPress(event, button)
                    THEN BitOr(buttons_pressed, bitmask)
                    ELSE BitAndNot(buttons_pressed, bitmask),
                calls |-> <<>>]
        st1 == IF IsPress(event, button) THEN Dispatch(st0, 1, bitmask, button)
               ELSE st0
        \* what the device sent, for the observation only
        press == event.type = EV_KEY /\ event.value = 1 /\ button # None
        continues == last.op = "handle_event" /\ last.type = EV_KEY
                     /\ last.value = 1 /\ last.button = button
    IN  /\ event.type = EV_ABS => nAxis < MaxAxisEvents
        /\ (press /\ continues) => streak < MaxStreak
        /\ axes' = IF slot # None
                   THEN [axes EXCEPT ![slot] = Axis_set(@, Normalise(event.value))]
                   ELSE st1.axes
        /\ buttons_pressed' = st1.buttons_pressed
        /\ button_handlers' = st1.button_handlers
        /\ calls' = st1.calls
        /\ last' = [Op("handle_event") EXCEPT
                        !.type = event.type, !.code = event.code,
                        !.value = event.value, !.button = button,
                        !.wasSet = (button # None /\ is_pressed(button))]
        /\ held' = IF button = None THEN held
                   ELSE IF event.value = 1 THEN held \cup {button}
                   ELSE held \ {button}
        /\ sinceDrain' = IF press THEN sinceDrain \cup {button} ELSE sinceDrain
        /\ streak' = IF ~press THEN 0 ELSE IF continues THEN streak + 1 ELSE 1
        /\ fired' = [i \in 1 .. Len(registrations) |->
                        (IF press /\ continues THEN fired[i] ELSE 0)
                        + Invocations(st1.calls, i)]
        /\ nAxis' = IF event.type = EV_ABS THEN nAxis + 1 ELSE nAxis
        /\ UNCHANGED <<stop_function, registrations, connVars, raceVars>>

(***************************************************************************)
(* SixAxis.register_button_handler and the remove() closure it returns     *)
(***************************************************************************)
register_button_handler(button_handler, buttons) ==
    LET h == [handler |-> button_handler, mask |-> MaskOf(buttons),
              id |-> Len(registrations) + 1]
    IN  /\ Len(registrations) < MaxRegistrations
        /\ button_handlers' = Append(button_handlers, h)
        /\ registrations' = Append(registrations, h)
        /\ last' = [Op("register") EXCEPT !.id = h.id]
        /\ calls' = <<>>
        /\ streak' = 0
        /\ fired' = Zeros(Len(registrations'))
        /\ UNCHANGED <<axes, buttons_pressed, stop_function, held, sinceDrain,
                       nAxis, connVars, raceVars>>

\* remove() of the registration numbered id: self.button_handlers.remove(h);
\* list.remove raises ValueError when no element equals h
remove(id) ==
    LET i == FirstEqual(button_handlers, registrations[id])
    IN  /\ button_handlers' = IF i = 0 THEN button_handlers
                              ELSE RemoveAt(button_handlers, i)
        /\ last' = [Op("remove") EXCEPT !.id = id, !.raised = (i = 0)]
        /\ calls' = <<>>
        /\ streak' = 0
        /\ fired' = Zeros(Len(registrations))
        /\ UNCHANGED <<axes, buttons_pressed, stop_function, registrations, held,
                       sinceDrain, nAxis, connVars, raceVars>>

(***************************************************************************)
(* SixAxis.get_and_clear_button_press_history, the whole call              *)
(***************************************************************************)
get_and_clear_button_press_history ==
    /\ buttons_pressed' = 0
    /\ last' = [Op("drain") EXCEPT !.ret = buttons_pressed, !.since = sinceDrain]
    /\ sinceDrain' = {}
    /\ calls' = <<>>
    /\ streak' = 0
    /\ fired' = Zeros(Len(registrations))
    /\ UNCHANGED <<axes, button_handlers, stop_function, registrations, held,
                   nAxis, connVars, raceVars>>

(***************************************************************************)
(* set_axis_centres and reset_axis_calibration called by the application   *)
(***************************************************************************)
SetAxisCentres ==
    /\ axes' = set_axis_centres(axes)
    /\ last' = Op("set_axis_centres")
    /\ calls' = <<>>
    /\ streak' = 0
    /\ fired' = Zeros(Len(registrations))
    /\ UNCHANGED <<button_handlers, buttons_pressed, stop_function, registrations,
                   held, sinceDrain, nAxis, connVars, raceVars>>

ResetAxisCalibration ==
    /\ axes' = reset_axis_calibration(axes)
    /\ last' = Op("reset_axis_calibration")
    /\ calls' = <<>>
    /\ streak' = 0
    /\ fired' = Zeros(Len(registrations))
    /\ UNCHANGED <<button_handlers, buttons_pressed, stop_function, registrations,
                   held, sinceDrain, nAxis, connVars, raceVars>>

(***************************************************************************)
(* Construction                                                            *)
(***************************************************************************)
\* SixAxis(dead_zone=0.05, hot_zone=0.0, invert_axes=[False]*4), not connected
InitController ==
    /\ axes = [i \in Slots |->
                  Axis(AxisNames[i + 1], FALSE, DeadZoneDefault, HotZoneDefault)]
    /\ button_handlers = <<>>
    /\ buttons_pressed = 0
    /\ stop_function = None

InitObservation ==
    /\ calls = <<>>
    /\ last = Op("init")
    /\ held = {}
    /\ sinceDrain = {}
    /\ streak = 0
    /\ nAxis = 0

Threads == {"t1", "t2"}

At(place, ch) == [at |-> place, ch |-> ch]
Idle == At("idle", 0)

Returned(call, value, attached) ==
    [call |-> call, value |-> value, attached |-> attached]

InitThreads ==
    /\ pc = [t \in Threads |-> Idle]
    /\ ret = [t \in Threads |-> Returned("none", "none", FALSE)]
    /\ socket_map = {}
    /\ loops = <<>>
    /\ stops = <<>>
    /\ reading = <<>>
    /\ late = {}
    /\ rpc = "idle"
    /\ rtmp = 0
    /\ rbutton = None
    /\ dpc = "idle"
    /\ old_buttons = 0
    /\ drains = <<>>
    /\ delivered = {}

Init ==
    /\ InitController
    /\ registrations = <<>>
    /\ fired = <<>>
    /\ InitObservation
    /\ InitThreads

(***************************************************************************)
(* Serial use: key events, registrations and drains, one call at a time    *)
(***************************************************************************)
KeyEvent == \E c \in KeyCodes, v \in KeyValues : handle_event(Event(EV_KEY, c, v))

Register == \E a \in RegisterArgs : register_button_handler(a.handler, a.buttons)

Remove == \E id \in 1 .. Len(registrations) : remove(id)

Drain == get_and_clear_button_press_history

Next == KeyEvent \/ Register \/ Remove \/ Drain

Spec == Init /\ [][Next]_vars


(***************************************************************************)
(* Axis calibration: SixAxisResource(bind_defaults=True).__enter__ has     *)
(* bound reset_axis_calibration to START and set_axis_centres to SELECT;   *)
(* axis samples and START/SELECT key events arrive, and the application    *)
(* may call the two methods itself.                                        *)
(***************************************************************************)
DefaultHandlers ==
    << [handler |-> "reset_axis_calibration", mask |-> MaskOf(Bare(BUTTON_START)),
        id |-> 1],
       [handler |-> "set_axis_centres", mask |-> MaskOf(Bare(BUTTON_SELECT)),
        id |-> 2] >>

InitAxis ==
    /\ axes = [i \in Slots |->
                  Axis(AxisNames[i + 1], FALSE, DeadZoneDefault, HotZoneDefault)]
    /\ button_handlers = DefaultHandlers
    /\ buttons_pressed = 0
    /\ stop_function = None
    /\ registrations = DefaultHandlers
    /\ fired = Zeros(Len(DefaultHandlers))
    /\ InitObservation
    /\ InitThreads

AxisEvent == \E c \in AxisCodes, r \in RawValues : handle_event(Event(EV_ABS, c, r))

\* a press of START or SELECT (their releases touch no axis)
DefaultKeyEvent == \E c \in DefaultKeyCodes : handle_event(Event(EV_KEY, c, 1))

NextAxis == AxisEvent \/ DefaultKeyEvent \/ SetAxisCentres \/ ResetAxisCalibration

SpecAxis == InitAxis /\ [][NextAxis]_vars


(***************************************************************************)
(* Calibration: a controller constructed with any dead_zone, hot_zone and  *)
(* invert_axes, fed left_x samples, recentred and reset.                   *)
(***************************************************************************)
\* dead_zone and hot_zone: none, the default, and one that with the default
\* leaves no room between the dead zone and the hot zone
ZoneValues == {0, 50, 950}
InvertAxes == {<<FALSE, FALSE, FALSE, FALSE>>, <<TRUE, TRUE, TRUE, TRUE>>}
CalRawValues == {-3, 0, 64, 200, 255}

\* SixAxis(dead_zone, hot_zone, invert_axes=...), no handler registered
InitCal ==
    /\ \E dead_zone \in ZoneValues, hot_zone \in ZoneValues, invert_axes \in InvertAxes :
          axes = [i \in Slots |->
                     Axis(AxisNames[i + 1], invert_axes[i + 1], dead_zone, hot_zone)]
    /\ button_handlers = <<>>
    /\ buttons_pressed = 0
    /\ stop_function = None
    /\ registrations = <<>>
    /\ fired = <<>>
    /\ InitObservation
    /\ InitThreads

CalEvent == \E r \in CalRawValues : handle_event(Event(EV_ABS, 0, r))

NextCal == CalEvent \/ SetAxisCentres \/ ResetAxisCalibration

SpecCal == InitCal /\ [][NextCal]_vars


(***************************************************************************)
(* Registrations for a bare code, a list of two codes and a list naming    *)
(* one code twice, each with a handler of its own, and presses of the      *)
(* buttons involved.                                                       *)
(***************************************************************************)
MaskRegisterArgs ==
    { [handler |-> "on_cross", buttons |-> Bare(BUTTON_CROSS)],
      [handler |-> "on_pair", buttons |-> List(<<BUTTON_SELECT, BUTTON_CIRCLE>>)],
      [handler |-> "on_twice", buttons |-> List(<<BUTTON_CIRCLE, BUTTON_CIRCLE>>)] }

MaskKeyCodes == {304, 305, 314}

MaskRegister ==
    \E a \in MaskRegisterArgs : register_button_handler(a.handler, a.buttons)

MaskKey == \E c \in MaskKeyCodes : handle_event(Event(EV_KEY, c, 1))

NextMask == MaskRegister \/ MaskKey

SpecMask == Init /\ [][NextMask]_vars


(***************************************************************************)
(* Events of every kind reaching a controller with the default handlers:   *)
(* types other than EV_KEY and EV_ABS, and codes neither chain names.      *)
(***************************************************************************)
EventTypes == {0, EV_KEY, EV_ABS, 4}
EventCodes == {0, 2, 314, 999}
EventValues == {0, 1, RawMax}

AnyEvent ==
    \E type \in EventTypes, code \in EventCodes, value \in EventValues :
        handle_event(Event(type, code, value))

NextEvents == AnyEvent

SpecEvents == InitAxis /\ [][NextEvents]_vars


(***************************************************************************)
(* Handlers that deregister themselves while the press is dispatched,      *)
(* registered next to ordinary ones.                                       *)
(***************************************************************************)
OneShotRegisterArgs ==
    { [handler |-> "remove_own", buttons |-> Bare(BUTTON_CIRCLE)],
      [handler |-> "cb1", buttons |-> Bare(BUTTON_CIRCLE)],
      [handler |-> "cb2", buttons |-> List(<<BUTTON_SELECT, BUTTON_CIRCLE>>)] }

OneShotKeyCodes == {305, 314}

OneShotRegister ==
    \E a \in OneShotRegisterArgs : register_button_handler(a.handler, a.buttons)

OneShotKey ==
    \E c \in OneShotKeyCodes, v \in KeyValues : handle_event(Event(EV_KEY, c, v))

NextOneShot == OneShotRegister \/ OneShotKey

SpecOneShot == Init /\ [][NextOneShot]_vars


(***************************************************************************)
(* connect() and disconnect() statement by statement, called from two      *)
(* application threads, and the AsyncLoopThread each connect starts.       *)
(* asyncore keeps one map of open channels for the process; loop() runs    *)
(* while that map is not empty and serves every channel in it.             *)
(***************************************************************************)
serialState == <<axes, button_handlers, buttons_pressed, registrations,
                 calls, last, held, sinceDrain, streak, fired, nAxis>>

\* past the check of line 197 and not yet at line 175
Opening(t) == pc[t].at \in {"connect_find", "connect_open"}

\* line 197: "if self._stop_function: return False"
connect_check(t) ==
    /\ pc[t] = Idle
    /\ IF stop_function # None
       THEN /\ ret' = [ret EXCEPT ![t] = Returned("connect", "False", FALSE)]
            /\ pc' = pc
       ELSE /\ Len(loops) + Cardinality({u \in Threads : Opening(u)}) < MaxConnects
            /\ ret' = [ret EXCEPT ![t] = Returned("none", "none", FALSE)]
            /\ pc' = [pc EXCEPT ![t] = At("connect_find", 0)]
    /\ UNCHANGED <<stop_function, socket_map, loops, stops, serialState, raceVars, reading, late>>

\* lines 200-210: the device is found, or find_controller_device raises IOError
connect_find(t) ==
    /\ pc[t].at = "connect_find"
    /\ \E found \in BOOLEAN :
          IF found
          THEN /\ pc' = [pc EXCEPT ![t] = At("connect_open", 0)]
               /\ ret' = ret
          ELSE /\ pc' = [pc EXCEPT ![t] = Idle]
               /\ ret' = [ret EXCEPT ![t] = Returned("connect", "IOError", FALSE)]
    /\ UNCHANGED <<stop_function, socket_map, loops, stops, serialState, raceVars, reading, late>>

\* line 175: InputDeviceDispatcher() enters asyncore's map; the thread object
\* for it exists but has not been started
connect_open(t) ==
    /\ pc[t].at = "connect_open"
    /\ LET ch == Len(loops) + 1
       IN  /\ socket_map' = socket_map \cup {ch}
           /\ loops' = Append(loops, "new")
           /\ stops' = Append(stops, 0)
           /\ reading' = Append(reading, 0)
           /\ pc' = [pc EXCEPT ![t] = At("connect_bind", ch)]
    /\ UNCHANGED <<stop_function, ret, serialState, raceVars, late>>

\* line 176: self._stop_function = loop_thread.stop
connect_bind(t) ==
    /\ pc[t].at = "connect_bind"
    /\ stop_function' = pc[t].ch
    /\ pc' = [pc EXCEPT ![t] = At("connect_start", pc[t].ch)]
    /\ UNCHANGED <<ret, socket_map, loops, stops, serialState, raceVars, reading, late>>

\* line 177: loop_thread.start(); connect then falls off its end: None
connect_start(t) ==
    /\ pc[t].at = "connect_start"
    /\ loops' = [loops EXCEPT ![pc[t].ch] = "polling"]
    /\ ret' = [ret EXCEPT ![t] = Returned("connect", "None", TRUE)]
    /\ pc' = [pc EXCEPT ![t] = Idle]
    /\ UNCHANGED <<stop_function, socket_map, stops, serialState, raceVars, reading, late>>

\* line 219: "if self._stop_function:"
disconnect_check(t) ==
    /\ pc[t] = Idle
    /\ IF stop_function = None
       THEN /\ ret' = [ret EXCEPT ![t] = Returned("disconnect", "None", FALSE)]
            /\ pc' = pc
       ELSE /\ ret' = [ret EXCEPT ![t] = Returned("none", "none", FALSE)]
            /\ pc' = [pc EXCEPT ![t] = At("disconnect_call", 0)]
    /\ UNCHANGED <<stop_function, socket_map, loops, stops, serialState, raceVars, reading, late>>

\* line 220: "self._stop_function()" loads the attribute again and calls it:
\* stop() closes the channel, which leaves the map; calling None raises TypeError
disconnect_call(t) ==
    /\ pc[t].at = "disconnect_call"
    /\ IF stop_function = None
       THEN /\ ret' = [ret EXCEPT ![t] = Returned("disconnect", "TypeError", FALSE)]
            /\ pc' = [pc EXCEPT ![t] = Idle]
            /\ UNCHANGED <<socket_map, stops>>
       ELSE /\ socket_map' = socket_map \ {stop_function}
            /\ stops' = [stops EXCEPT ![stop_function] = @ + 1]
            /\ pc' = [pc EXCEPT ![t] = At("disconnect_clear", stop_function)]
            /\ ret' = ret
    /\ UNCHANGED <<stop_function, loops, serialState, raceVars, reading, late>>

\* faulty variant: disconnect() also forgets the press state
disconnect_clear_releasing(t) ==
    /\ pc[t].at = "disconnect_clear"
    /\ stop_function' = None
    /\ buttons_pressed' = 0
    /\ ret' = [ret EXCEPT ![t] = Returned("disconnect", "None", FALSE)]
    /\ pc' = [pc EXCEPT ![t] = Idle]
    /\ UNCHANGED <<socket_map, loops, stops, axes, button_handlers, registrations,
                   obsVars, raceVars, reading, late>>

\* line 221: self._stop_function = None
disconnect_clear(t) ==
    /\ pc[t].at = "disconnect_clear"
    /\ stop_function' = None
    /\ ret' = [ret EXCEPT ![t] = Returned("disconnect", "None", FALSE)]
    /\ pc' = [pc EXCEPT ![t] = Idle]
    /\ UNCHANGED <<socket_map, loops, stops, serialState, raceVars, reading, late>>

\* the disconnect() calls that closed channel ch have all returned
Disconnected(ch) ==
    /\ stops[ch] >= 1
    /\ \A t \in Threads : ~(pc[t].at = "disconnect_clear" /\ pc[t].ch = ch)

\* AsyncLoopThread.run: loop() returns once the map is empty
loop_exit(l) ==
    /\ loops[l] = "polling"
    /\ socket_map = {}
    /\ loops' = [loops EXCEPT ![l] = "exited"]
    /\ UNCHANGED <<stop_function, pc, ret, socket_map, stops, serialState, raceVars,
                   reading, late>>

\* loop() polls the channels of the map and finds one readable
loop_poll(l) ==
    /\ loops[l] = "polling"
    /\ \E ch \in socket_map :
          reading' = [reading EXCEPT ![l] = ch]
    /\ loops' = [loops EXCEPT ![l] = "handle_read"]
    /\ UNCHANGED <<stop_function, pc, ret, socket_map, stops, serialState, raceVars,
                   late>>

\* handle_read: recv() reads the device, whose own descriptor stop() does not
\* close, and parent.handle_event is called for each event read
loop_handle_read(l) ==
    /\ loops[l] = "handle_read"
    /\ loops' = [loops EXCEPT ![l] = "handle_event"]
    /\ late' = IF Disconnected(reading[l]) THEN late \cup {reading[l]} ELSE late
    /\ UNCHANGED <<stop_function, pc, ret, socket_map, stops, serialState, raceVars,
                   reading>>

\* handle_event returns, back to polling
loop_handled(l) ==
    /\ loops[l] = "handle_event"
    /\ loops' = [loops EXCEPT ![l] = "polling"]
    /\ reading' = [reading EXCEPT ![l] = 0]
    /\ UNCHANGED <<stop_function, pc, ret, socket_map, stops, serialState, raceVars,
                   late>>

Connect ==
    \E t \in Threads :
        \/ connect_check(t)
        \/ connect_find(t)
        \/ connect_open(t)
        \/ connect_bind(t)
        \/ connect_start(t)

Disconnect ==
    \E t \in Threads :
        \/ disconnect_check(t)
        \/ disconnect_call(t)
        \/ disconnect_clear(t)

LoopThread ==
    \E l \in 1 .. Len(loops) :
        \/ loop_exit(l)
        \/ loop_poll(l)
        \/ loop_handle_read(l)
        \/ loop_handled(l)

NextConn == Connect \/ Disconnect \/ LoopThread

SpecConn == Init /\ [][NextConn]_vars

\* Scheduling: a thread that is inside connect() or disconnect() goes on to its
\* next statement, and a started loop thread keeps running.  Nothing obliges
\* the application to call connect() or disconnect() again.
AppStep(t) ==
    \/ connect_find(t)
    \/ connect_open(t)
    \/ connect_bind(t)
    \/ connect_start(t)
    \/ disconnect_call(t)
    \/ disconnect_clear(t)

LoopStep(l) ==
    /\ l <= Len(loops)
    /\ (loop_exit(l) \/ loop_poll(l) \/ loop_handle_read(l) \/ loop_handled(l))

SpecFeed ==
    /\ SpecConn
    /\ \A t \in Threads : WF_vars(AppStep(t))
    /\ \A l \in 1 .. MaxConnects : WF_vars(LoopStep(l))

(***************************************************************************)
(* One application thread connecting, disconnecting and connecting again   *)
(* a controller that has the default handlers registered, while SELECT     *)
(* presses and full-scale left_x samples reach handle_event.               *)
(***************************************************************************)
CycleThread == "t1"

CycleCalls ==
    \/ connect_check(CycleThread)
    \/ connect_find(CycleThread)
    \/ connect_open(CycleThread)
    \/ connect_bind(CycleThread)
    \/ connect_start(CycleThread)
    \/ disconnect_check(CycleThread)
    \/ disconnect_call(CycleThread)
    \/ disconnect_clear(CycleThread)

CycleKey == handle_event(Event(EV_KEY, 314, 1))

CycleAxis == handle_event(Event(EV_ABS, 0, RawMax))

NextCycle == CycleCalls \/ LoopThread \/ CycleKey \/ CycleAxis

SpecCycle == InitAxis /\ [][NextCycle]_vars

(***************************************************************************)
(* The reader thread inside handle_event for a press event, against an     *)
(* application thread inside get_and_clear_button_press_history.  Neither  *)
(* method takes a lock; "self.buttons_pressed |= bitmask" loads the field  *)
(* and stores it back, and the drain reads the field and then zeroes it.   *)
(* Each button is pressed once and not released.                           *)
(***************************************************************************)
RacePressCodes == {305, 314, 316}

connState == <<stop_function, pc, ret, socket_map, loops, stops, reading, late>>

\* line 354, first half: load self.buttons_pressed
press_load(code) ==
    /\ rpc = "idle"
    /\ KeyTable(code) \notin delivered
    /\ rbutton' = KeyTable(code)
    /\ rtmp' = buttons_pressed
    /\ rpc' = "loaded"
    /\ UNCHANGED <<axes, button_handlers, buttons_pressed, registrations, obsVars,
                   connState, dpc, old_buttons, drains, delivered>>

\* line 354, second half: store the or-ed value; lines 355-357 then run the
\* handler loop and handle_event returns
press_store ==
    /\ rpc = "loaded"
    /\ LET bitmask == Shl(rbutton)
           st0 == [axes |-> axes, button_handlers |-> button_handlers,
                   buttons_pressed |-> BitOr(rtmp, bitmask), calls |-> <<>>]
           st1 == Dispatch(st0, 1, bitmask, rbutton)
       IN  /\ buttons_pressed' = st1.buttons_pressed
           /\ axes' = st1.axes
           /\ button_handlers' = st1.button_handlers
           /\ calls' = st1.calls
    /\ delivered' = delivered \cup {rbutton}
    /\ rpc' = "idle"
    /\ UNCHANGED <<registrations, last, held, sinceDrain, streak, fired, nAxis,
                   connState, rtmp, rbutton, dpc, old_buttons, drains>>

\* line 141: old_buttons = self.buttons_pressed
drain_load ==
    /\ dpc = "idle"
    /\ Len(drains) < MaxDrains
    /\ old_buttons' = buttons_pressed
    /\ dpc' = "loaded"
    /\ UNCHANGED <<axes, button_handlers, buttons_pressed, registrations, obsVars,
                   connState, rpc, rtmp, rbutton, drains, delivered>>

\* lines 142-143: self.buttons_pressed = 0; return old_buttons
drain_store ==
    /\ dpc = "loaded"
    /\ buttons_pressed' = 0
    /\ drains' = Append(drains, old_buttons)
    /\ dpc' = "idle"
    /\ UNCHANGED <<axes, button_handlers, registrations, obsVars, connState,
                   rpc, rtmp, rbutton, old_buttons, delivered>>

Reader == (\E c \in RacePressCodes : press_load(c)) \/ press_store

Drainer == drain_load \/ drain_store

NextDrain == Reader \/ Drainer

SpecDrain == Init /\ [][NextDrain]_vars

(***************************************************************************)
(* Properties                                                              *)
(***************************************************************************)
HasBit(x, b) == (x \div (2 ^ b)) % 2 = 1

\* the registrations of list whose mask has bit b, in list order
RECURSIVE Matching(_, _)
Matching(list, b) ==
    IF list = <<>> THEN <<>>
    ELSE IF HasBit(Head(list).mask, b)
    THEN <<Head(list)>> \o Matching(Tail(list), b)
    ELSE Matching(Tail(list), b)

\* list without the registration whose identity is id
RECURSIVE Without(_, _)
Without(list, id) ==
    IF list = <<>> THEN <<>>
    ELSE IF Head(list).id = id THEN Without(Tail(list), id)
    ELSE <<Head(list)>> \o Without(Tail(list), id)

IsKeyEvent(l, v) ==
    l.op = "handle_event" /\ l.type = EV_KEY /\ l.value = v /\ l.button # None

\* C1: a press event of a mapped button b sets bit b of buttons_pressed and
\* then invokes, once each and in registration order, exactly the
\* registrations whose mask has bit b, with b as the argument; each handler
\* already finds bit b set.
C1_PressDispatch ==
    [][IsKeyEvent(last', 1) =>
        LET b == last'.button
            m == Matching(button_handlers, b)
        IN  /\ b \in Buttons
            /\ HasBit(buttons_pressed', b)
            /\ Len(calls') = Len(m)
            /\ \A i \in 1 .. Len(m) :
                  /\ calls'[i].id = m[i].id
                  /\ calls'[i].handler = m[i].handler
                  /\ calls'[i].arg = b
                  /\ HasBit(calls'[i].seen, b)]_vars

\* C1 witness: a CIRCLE press has invoked two registrations with different
\* masks, the earlier registration first.
C1_Witness ==
    /\ IsKeyEvent(last, 1)
    /\ last.button = BUTTON_CIRCLE
    /\ Len(calls) = 2
    /\ calls[1].id < calls[2].id
    /\ button_handlers[1].mask # button_handlers[2].mask

\* C2: a drain returns a bit field holding every button that received a press
\* since the previous drain, also one released before the drain, and leaves
\* buttons_pressed at 0.
C2_DrainReportsEveryPress ==
    last.op = "drain" =>
        /\ \A b \in last.since : HasBit(last.ret, b)
        /\ buttons_pressed = 0

\* C3: bit b of buttons_pressed is set exactly when button b is held down.
C3_BitIffHeld == \A b \in Buttons : is_pressed(b) <=> b \in held

\* C4: min <= centre <= max on every axis.
C4_CentreWithinBounds ==
    \A i \in Slots : axes[i].min <= axes[i].centre /\ axes[i].centre <= axes[i].max

\* C5: invoking the deregistration function of a registration removes that
\* registration and no other; invoked again, it leaves the others alone.
C5_RemoveExactlyOwn ==
    [][last'.op = "remove" =>
        button_handlers' = Without(button_handlers, last'.id)]_vars

\* C6: n consecutive press events of button b, no release between them, have
\* invoked every registration matching b n times and no other registration.
C6_NoDebounce ==
    streak >= 1 =>
        \A i \in 1 .. Len(button_handlers) :
            fired[button_handlers[i].id] =
                IF HasBit(button_handlers[i].mask, last.button) THEN streak ELSE 0

\* C6 witness: the second press in a row of a button whose bit was already
\* set, with a registration invoked twice and another not at all.
C6_Witness ==
    /\ streak = 2
    /\ last.wasSet
    /\ \E i, j \in 1 .. Len(button_handlers) :
          /\ fired[button_handlers[i].id] = 2
          /\ fired[button_handlers[j].id] = 0

\* C7: a release event of a mapped button b clears bit b, leaves every other
\* bit as it was and invokes no handler.
C7_ReleaseClearsOnlyItsBit ==
    [][IsKeyEvent(last', 0) =>
        /\ buttons_pressed' =
              IF HasBit(buttons_pressed, last'.button)
              THEN buttons_pressed - 2 ^ last'.button
              ELSE buttons_pressed
        /\ calls' = <<>>]_vars

\* C7 witness: a held button was released while another stays pressed and a
\* registration matches the released button.
C7_Witness ==
    /\ IsKeyEvent(last, 0)
    /\ last.wasSet
    /\ buttons_pressed # 0
    /\ \E i \in 1 .. Len(button_handlers) :
          HasBit(button_handlers[i].mask, last.button)


\* C8: a connect() that finds the controller disconnected and attaches a device
\* returns True and leaves is_connected() true; a connect() that finds it
\* connected returns False.
C8_ConnectReturnsTrue ==
    \A t \in Threads :
        ret[t].call = "connect" =>
            /\ ret[t].attached => ret[t].value = "True"
            /\ ret[t].value = "False" => ~ret[t].attached

\* C9: at most one channel is open and at most one loop thread is alive, so at
\* most one thread is inside handle_event.
C9_AtMostOneFeed ==
    /\ Cardinality(socket_map) <= 1
    /\ Cardinality({l \in 1 .. Len(loops) :
                       loops[l] \in {"polling", "handle_read", "handle_event"}}) <= 1
    /\ Cardinality({l \in 1 .. Len(loops) : loops[l] = "handle_event"}) <= 1

\* C10: whenever neither thread is inside its method, each button whose press
\* has been delivered is in exactly one place: one drain's result, or
\* buttons_pressed.
C10_EachPressOnce ==
    (rpc = "idle" /\ dpc = "idle") =>
        \A b \in delivered :
            Cardinality({i \in 1 .. Len(drains) : HasBit(drains[i], b)})
            + (IF HasBit(buttons_pressed, b) THEN 1 ELSE 0) = 1

\* C11: disconnect() raises no error and the stop capability of a connection
\* is invoked at most once, also when two threads call disconnect() at once.
C11_StopOncePerConnection ==
    /\ \A ch \in 1 .. Len(stops) : stops[ch] <= 1
    /\ \A t \in Threads :
          ret[t].call = "disconnect" => ret[t].value = "None"

\* C12: once disconnect() has returned on a connected controller, the loop thread
\* of that connection eventually exits, and no event read from the device after
\* that return is delivered to handle_event.
C12_FeedEndsAfterDisconnect ==
    /\ [](late = {})
    /\ \A l \in 1 .. MaxConnects :
          (l <= Len(loops) /\ Disconnected(l))
              ~> (l <= Len(loops) /\ loops[l] = "exited")

\* the value corrected_value() would return in the current state
Corrected(i) == corrected_value(axes[i])
IsFloat(x, n) == x # ZeroDivisionError /\ x.num = n * x.den

\* C13: with hot_zone 0 and no inversion corrected_value() is exactly 1.0 when
\* value = max and exactly -1.0 when value = min.
C13_ExtremesSaturate ==
    \A i \in Slots :
        (axes[i].hot_zone = 0 /\ ~axes[i].invert) =>
            /\ axes[i].value = axes[i].max => IsFloat(Corrected(i), 1)
            /\ axes[i].value = axes[i].min => IsFloat(Corrected(i), -1)

\* value is within dead_zone of the range on its side of the centre
InDeadZone(axis) ==
    \/ axis.value = axis.centre
    \/ /\ axis.value > axis.centre
       /\ ZoneOne * (axis.value - axis.centre)
              <= axis.dead_zone * (axis.max - axis.centre)
    \/ /\ axis.value < axis.centre
       /\ ZoneOne * (axis.centre - axis.value)
              <= axis.dead_zone * (axis.centre - axis.min)

\* C14: corrected_value() is 0.0 whenever value = centre or value lies in the
\* dead zone, for every dead_zone and hot_zone.
C14_DeadZoneIsZero ==
    \A i \in Slots : InDeadZone(axes[i]) => IsFloat(Corrected(i), 0)

\* C15: corrected_value() lies in [-1.0, 1.0] in every reachable axis state, for
\* every dead_zone and hot_zone and either inversion.
C15_CorrectedInRange ==
    \A i \in Slots :
        /\ Corrected(i) # ZeroDivisionError
        /\ -Corrected(i).den <= Corrected(i).num
        /\ Corrected(i).num <= Corrected(i).den

\* an inverted axis with a hot zone and a moved centre, its value strictly
\* between the dead zone and the hot zone
C15_Witness ==
    \E i \in Slots :
        /\ axes[i].invert
        /\ axes[i].hot_zone > 0
        /\ axes[i].centre # CentreDefault
        /\ Corrected(i).num # 0
        /\ -Corrected(i).den < Corrected(i).num
        /\ Corrected(i).num < Corrected(i).den

\* what corrected_value() computed before the inversion
Uninverted(i) == IF axes[i].invert THEN Neg(Corrected(i)) ELSE Corrected(i)

\* C16: corrected_value() never divides by zero; where high_end = high_start or
\* low_start = low_end it returns 1.0 (-1.0) for a value beyond the start
\* threshold and 0 for a value between the start thresholds.
C16_NoDivisionByZero ==
    \A i \in Slots :
        LET axis == axes[i]
            value == ZoneOne * axis.value
        IN  /\ Corrected(i) # ZeroDivisionError
            /\ (high_end(axis) = high_start(axis) /\ value > high_start(axis))
                   => IsFloat(Uninverted(i), 1)
            /\ (low_start(axis) = low_end(axis) /\ value < low_start(axis)
                   /\ value <= high_start(axis))
                   => IsFloat(Uninverted(i), -1)
            /\ ((high_end(axis) = high_start(axis) \/ low_start(axis) = low_end(axis))
                   /\ value <= high_start(axis) /\ value >= low_start(axis))
                   => IsFloat(Uninverted(i), 0)

\* centre = max = value after a recentre at the top: high_range is 0 and the
\* value sits on high_start = high_end
C16_Witness ==
    \E i \in Slots :
        /\ axes[i].centre = axes[i].max
        /\ axes[i].value = axes[i].max
        /\ high_end(axes[i]) = high_start(axes[i])
        /\ last.op = "set_axis_centres"

\* C17: every step of connect() and of disconnect() leaves the axes (value, min,
\* max, centre), buttons_pressed and the registration list as they were.
C17_ConnectionFrame ==
    [][(pc' # pc \/ ret' # ret \/ stop_function' # stop_function) =>
           /\ axes' = axes
           /\ buttons_pressed' = buttons_pressed
           /\ button_handlers' = button_handlers
           /\ registrations' = registrations]_vars

\* connected again after a disconnect, with a recentred left_x at full scale
\* and SELECT recorded as pressed
C17_Witness ==
    /\ Len(loops) = 2
    /\ stops[1] = 1
    /\ stop_function = 2
    /\ ret[CycleThread] = Returned("connect", "None", TRUE)
    /\ axes[0].centre = One
    /\ axes[0].max = One
    /\ buttons_pressed = Shl(BUTTON_SELECT)
    /\ Len(button_handlers) = 2

\* the button codes a handler of SpecMask was registered with
SuppliedCodes(handler) ==
    LET a == CHOOSE x \in MaskRegisterArgs : x.handler = handler
    IN  IF a.buttons.list
        THEN {a.buttons.codes[k] : k \in 1 .. Len(a.buttons.codes)}
        ELSE {a.buttons.code}

RECURSIVE OrOfShl(_)
OrOfShl(codes) ==
    IF codes = {} THEN 0
    ELSE LET b == CHOOSE x \in codes : TRUE
         IN  BitOr(Shl(b), OrOfShl(codes \ {b}))

\* C18: the mask of every registration is the bitwise OR of 1 << code over the
\* codes supplied, also when a code is supplied twice, and after a press of b
\* a handler has been invoked iff b is among the codes it was registered with.
C18_MaskIsOrOfCodes ==
    \A i \in 1 .. Len(button_handlers) :
        LET h == button_handlers[i]
        IN  /\ h.mask = OrOfShl(SuppliedCodes(h.handler))
            /\ IsKeyEvent(last, 1) =>
                   (Invocations(calls, h.id) >= 1
                        <=> last.button \in SuppliedCodes(h.handler))

IsAxisEvent(l) == l.op = "handle_event" /\ l.type = EV_ABS

MappedKeyCodes ==
    {304, 305, 307, 308, 310, 311, 312, 313, 314, 315, 316, 317, 318,
     544, 545, 546, 547}

\* an event handle_event has nothing to do for
Ignored(l) ==
    /\ l.op = "handle_event"
    /\ \/ l.type = EV_ABS /\ l.code \notin {0, 1, 3, 4}
       \/ l.type = EV_KEY /\ l.code \notin MappedKeyCodes
       \/ l.type \notin {EV_ABS, EV_KEY}

\* C20: an absolute-axis event with a code other than 0, 1, 3, 4, a key event
\* with an unmapped code, and an event of any other type raise no error,
\* invoke no handler and leave every axis, buttons_pressed and the
\* registrations as they were.
C20_IgnoredEventFrame ==
    [][Ignored(last') =>
          /\ ~last'.raised
          /\ calls' = <<>>
          /\ axes' = axes
          /\ buttons_pressed' = buttons_pressed
          /\ button_handlers' = button_handlers
          /\ registrations' = registrations]_vars

\* a press of an unmapped key code arrives while handlers are registered,
\* SELECT is recorded as pressed and left_x holds a full-scale sample
C20_Witness ==
    /\ Ignored(last)
    /\ last.type = EV_KEY
    /\ last.value = 1
    /\ Len(button_handlers) > 0
    /\ buttons_pressed = Shl(BUTTON_SELECT)
    /\ axes[0].value = One

\* the step ran Axis._reset: reset_axis_calibration was called, directly or as
\* a handler
IsResetStep(l, log) ==
    \/ l.op = "reset_axis_calibration"
    \/ \E k \in 1 .. Len(log) : log[k].handler = "reset_axis_calibration"

\* C21: an axis sample r records value = r, moves max to r if r > max, otherwise
\* min to r if r < min, and nothing else of the axis; between calibration
\* resets max never decreases and min never increases; min <= max always.
C21_SetMovesOneBound ==
    /\ \A i \in Slots : axes[i].min <= axes[i].max
    /\ [][/\ \A i \in Slots : axes'[i].min <= axes'[i].max
          /\ ~IsResetStep(last', calls') =>
                \A i \in Slots : /\ axes'[i].max >= axes[i].max
                                 /\ axes'[i].min <= axes[i].min
          /\ (IsAxisEvent(last') /\ last'.code \in {0, 1, 3, 4}) =>
                LET slot == IF last'.code <= 1 THEN last'.code ELSE last'.code - 1
                    raw == last'.value
                    r == IF raw <= 0 THEN 0
                         ELSE IF raw >= RawMax THEN One
                         ELSE (One * raw) \div RawMax
                    old == axes[slot]
                    new == axes'[slot]
                IN  /\ new.value = r
                    /\ new.centre = old.centre
                    /\ new.max = (IF r > old.max THEN r ELSE old.max)
                    /\ new.min = (IF r <= old.max /\ r < old.min THEN r ELSE old.min)]_vars

\* a sample below min arrives at an axis whose max an earlier sample raised
C21_Witness ==
    /\ IsAxisEvent(last)
    /\ last.code = 3
    /\ axes[2].value = 0
    /\ axes[2].min = 0
    /\ axes[2].max = One

KeepsItself(h) == h.handler # "remove_own"

\* C23: when a handler deregisters itself while a press is dispatched, every
\* other registration that matched the button and was registered when the
\* event arrived is still invoked exactly once, in registration order.
C23_OthersStillInvoked ==
    [][IsKeyEvent(last', 1) =>
          LET m == SelectSeq(Matching(button_handlers, last'.button), KeepsItself)
              c == SelectSeq(calls', KeepsItself)
          IN  /\ Len(c) = Len(m)
              /\ \A i \in 1 .. Len(m) : c[i].id = m[i].id]_vars

=============================================================================
